---- MODULE Spec2Model ----
(***************************************************************************)
(* The czytget download server: the Server reactive thread with its four  *)
(* job collections, its Worker threads, the persisted job files, and the   *)
(* part of the Communicator the handlers use to answer a client.           *)
(***************************************************************************)
EXTENDS Integers, Sequences, FiniteSets, TLC

(* ------------------------------ bounds -------------------------------- *)

\* largest conf.numThreads the model configures
MaxThreads == 2
\* client requests the protocol thread delivers during a run
MaxRequests == 2

\* YT codes (11 characters) and playlist codes (34 characters) clients send
Items == {"AAAAAAAAAAA", "BBBBBBBBBBB"}
Playlists == {"PPPPPPPPPPPPPPPPPPPPPPPPPPPPPPPPPP"}

(* ------------------------------ state --------------------------------- *)

VARIABLES
    numThreads,     \* conf.numThreads: the number of Worker threads
    connections,    \* Communicator._connections: an "open" socket, a socket
                    \* that has been "shut" with close(), or None
    messages,       \* Server._messages: the server's mailbox
    clients,        \* Server._clients: clientID -> ClientData.connected
    queuedJobs,     \* Server._queuedJobs: a set
    failedJobs,     \* Server._failedJobs: dict clientID -> set of YT codes
    runningJobs,    \* Server._runningJobs: dict clientID -> set of YT codes
    finishedJobs,   \* Server._finishedJobs: dict clientID -> set of YT codes
    files,          \* the four files of the session directory
    workers,        \* Worker threads: _free, mailbox, position in processMsgTask
    clock,          \* requests created so far (time.monotonic_ns of RequestMsg)
    handled,        \* the message the server processed last
    sent,           \* the Communicator.send calls of that handler
    dumped,         \* the files that handler rewrote
    raised,         \* the exception that handler raised, "" if none
    protocol,       \* the server's Protocol thread and its Serialiser
    communicator,   \* the server's Communicator: accept loop and read loops
    client,         \* a Client session (a process of its own)
    shutdown        \* Server.threadCodePost and the workers' cookie files

\* the threads around the server's message loop
periphery == <<protocol, communicator, client, shutdown>>

vars == <<numThreads, connections, messages, clients, queuedJobs, failedJobs,
          runningJobs, finishedJobs, files, workers, clock,
          handled, sent, dumped, raised, periphery>>

(* ------------------------------ values -------------------------------- *)

\* connections[clientID] is None once the read loop has ended
None == "None"

\* msg.server.Job: a named tuple (clientID, ytCode)
Job(clientID, ytCode) == <<clientID, ytCode>>
\* a bare Python int held in a set next to Job tuples
PyInt(k) == <<k>>
IsJob(x) == Len(x) = 2

NoJob == <<>>
NoMessage == [type |-> "none"]

\* BaseMsg.__init__ sets clientID to -1
DefaultClientID == -1

\* the values the clientID attribute of a request carries with one client:
\* the default of BaseMsg and the id of the first accepted connection
ClientIDs == {DefaultClientID, 0}

Workers == 0 .. numThreads - 1

_FAILED_FILE == "failed.pkl"
_FINISHED_FILE == "finished.pkl"
_PROCESSING_FILE == "processing.pkl"
_QUEUED_FILE == "queued.pkl"
_FILE_CANDIDATES == {_FAILED_FILE, _FINISHED_FILE, _PROCESSING_FILE, _QUEUED_FILE}

(* Python dict as a function; its keys are its DOMAIN *)
EmptyDict == <<>>
DictPut(d, k, v) == [x \in DOMAIN d \cup {k} |-> IF x = k THEN v ELSE d[x]]
\* if k not in d: d[k] = set()   followed by   d[k].add(code)
DictSetAdd(d, k, code) == DictPut(d, k, (IF k \in DOMAIN d THEN d[k] ELSE {}) \cup {code})
\* the jobs a dict clientID -> codes holds
DictJobs(d) == UNION {{Job(k, c) : c \in d[k]} : k \in DOMAIN d}

(* ------------------------------ messages ------------------------------ *)

MsgConnected(clientID) == [clientID |-> clientID, type |-> "MsgConnected"]
MsgDisconnected(clientID) == [clientID |-> clientID, type |-> "MsgDisconnected"]
MsgAddCode(clientID, queryID, ytCode) ==
    [clientID |-> clientID, ytCode |-> ytCode, type |-> "MsgAddCode", queryID |-> queryID]
MsgAddList(clientID, queryID, ytCode) ==
    [clientID |-> clientID, ytCode |-> ytCode, type |-> "MsgAddList", queryID |-> queryID]
\* MsgRetry and MsgDiscard derive from czthreading.Message, not from
\* BaseMsg: they have no clientID attribute
MsgRetry == [type |-> "MsgRetry"]
MsgDiscard == [type |-> "MsgDiscard"]
MsgList(clientID, queryID) ==
    [clientID |-> clientID, type |-> "MsgList", queryID |-> queryID]
MsgTask(job) == [type |-> "MsgTask", job |-> job]
MsgAck(job, success, errorMsg) ==
    [type |-> "MsgAck", job |-> job, success |-> success, errorMsg |-> errorMsg]
MsgAllocate == [type |-> "MsgAllocate"]
MsgResponse(queryID, text) == [queryID |-> queryID, text |-> text]

\* A request in the server's mailbox, with Packet.sender (the id of the
\* connection its bytes arrived on) kept beside it.  The Python object has no
\* such attribute and no handler reads it: it records where the request came
\* from, for the properties that speak of the sending client.
Received(sender, message) == [sender |-> sender] @@ message

(* ------------------------------ Init ---------------------------------- *)

NewFile(empty) == [written |-> FALSE, data |-> empty]
NewWorker == [messages |-> <<>>, job |-> NoJob, free |-> TRUE, pc |-> "idle"]

\* Protocol.__init__ and Serialiser.__init__: nothing received, no buffer;
\* stream and framed are the bytes each peer has written and not yet had
\* read, and the messages it has framed so far
NewProtocol ==
    [raised |-> "", received |-> <<>>, buffers |-> EmptyDict,
     stream |-> EmptyDict, framed |-> EmptyDict]

\* Communicator.__init__ and the start of threadCode: no connection accepted,
\* no read loop started; the listening socket is open, the accept loop and
\* the dispatcher run, and running() is true until stop() is called
NewCommunicator ==
    [accepted |-> 0, starting |-> {}, acceptNo |-> <<>>, recv |-> EmptyDict,
     running |-> TRUE, acceptLoop |-> "running", dispatcher |-> "running",
     listener |-> "open", thread |-> "running"]

\* Client.__init__; connection is the client's socket to the server, stdout
\* what the session has written, entered the number of commands typed, and
\* notified records that MsgDisconnected reached the mailbox while the prompt
\* loop was running
NewClient ==
    [messages |-> <<>>, raised |-> "", processingMessages |-> TRUE,
     cmdLoopRunning |-> FALSE, killSwitch |-> None, msgLoop |-> "created",
     cmdLoop |-> "created", requests |-> <<>>, connection |-> "none", stdout |-> <<>>,
     entered |-> 0, responses |-> 0, notified |-> FALSE]

\* the server runs; threadCodePost has not begun
\* told are the workers stop() was called on, cookieFiles the local list of
\* threadCodePost, merged and removed the cookie files read and deleted
NewShutdown ==
    [pc |-> "running", told |-> {}, cookieFiles |-> <<>>, merged |-> {}, removed |-> {}]

Init ==
    /\ numThreads \in 1 .. MaxThreads
    /\ connections = <<>>
    /\ messages = <<>>
    /\ clients = EmptyDict
    /\ queuedJobs = {}
    /\ failedJobs = EmptyDict
    /\ runningJobs = EmptyDict
    /\ finishedJobs = EmptyDict
    /\ files = [f \in _FILE_CANDIDATES |->
                  IF f = _QUEUED_FILE THEN NewFile({}) ELSE NewFile(EmptyDict)]
    /\ workers = [w \in 0 .. numThreads - 1 |-> NewWorker]
    /\ clock = 0
    /\ handled = NoMessage
    /\ sent = <<>>
    /\ dumped = {}
    /\ raised = ""
    /\ protocol = NewProtocol
    /\ communicator = NewCommunicator
    /\ client = NewClient
    /\ shutdown = NewShutdown

(* --------------------------- Communicator.send ------------------------- *)

\* Communicator.send in server mode with a clientID: the outcome of the call
\* (sendall on a socket object that has been closed raises OSError)
CommSend(clientID) ==
    IF clientID < 0 \/ clientID >= Len(connections) THEN "ValueError"
    ELSE IF connections[clientID + 1] = None THEN "closed"
    ELSE IF connections[clientID + 1] = "shut" THEN "OSError"
    ELSE "sent"

\* one Protocol.send(response, clientID) as the handler's log keeps it
SendCall(clientID, response) ==
    [queryID |-> response.queryID, text |-> response.text, to |-> clientID,
     result |-> CommSend(clientID)]

(* ------------------------- the server's handlers ----------------------- *)
(* A handler is an operator from the message to the set of outcomes it    *)
(* can have in the current state.  An outcome holds the value of every    *)
(* attribute the handler can write, the messages it posted, and what it   *)
(* sent, dumped and raised.                                               *)

Unchanged ==
    [clients |-> clients, files |-> files, sent |-> <<>>,
     dumped |-> {}, raised |-> "", running |-> runningJobs,
     queued |-> queuedJobs, failed |-> failedJobs,
     finished |-> finishedJobs, tasks |-> [w \in Workers |-> <<>>], posted |-> <<>>]

Raise(o, exception) == [o EXCEPT !.raised = exception]

\* _dumpFile(filename, q): the whole file is rewritten with q
_dumpFile(o, filename, q) ==
    [o EXCEPT !.files[filename] = [written |-> TRUE, data |-> q],
              !.dumped = @ \cup {filename}]
_dumpQueued(o) == _dumpFile(o, _QUEUED_FILE, o.queued)
\* _dumpProcessing that writes nothing
_dumpProcessing_Skipped(o) == o

_dumpProcessing(o) == _dumpFile(o, _PROCESSING_FILE, o.running)
_dumpFinished(o) == _dumpFile(o, _FINISHED_FILE, o.finished)
_dumpFailed(o) == _dumpFile(o, _FAILED_FILE, o.failed)
_dumpAll(o) == _dumpFailed(_dumpFinished(_dumpProcessing(_dumpQueued(o))))

\* self.comm(message) of the server thread on itself
Post(o, message) == [o EXCEPT !.posted = Append(@, message)]

\* self._connector.send(response, clientID), then the rest of the handler
SendThen(o, clientID, response, rest(_)) ==
    IF CommSend(clientID) \in {"ValueError", "OSError"}
    THEN Raise(o, CommSend(clientID))
    ELSE rest([o EXCEPT !.sent = Append(@, SendCall(clientID, response))])

Identity(o) == o

\* processMsgConnected without the test for an existing record
processMsgConnected_Overwrites(message) ==
    {[Unchanged EXCEPT !.clients = DictPut(@, message.clientID, TRUE)]}

processMsgConnected(message) ==
    IF message.clientID \in DOMAIN clients
    THEN {Unchanged}
    ELSE {[Unchanged EXCEPT !.clients = DictPut(@, message.clientID, TRUE)]}

processMsgDisconnected(message) ==
    IF message.clientID \notin DOMAIN clients
    THEN {Unchanged}
    ELSE IF ~clients[message.clientID]
    THEN {Unchanged}
    ELSE {[Unchanged EXCEPT !.clients = DictPut(@, message.clientID, FALSE)]}

TextAlreadyBeingProcessed(ytCode) == "YT code '" \o ytCode \o "' already being processed"
TextAlreadyProcessed(ytCode) == "YT code '" \o ytCode \o "' already processed"
TextQueued(ytCode) == "YT code '" \o ytCode \o "' queued"

\* AddCodeBranch without the test of _runningJobs
AddCodeBranch_NoRunningTest(message) ==
    IF /\ message.clientID \in DOMAIN finishedJobs
       /\ message.ytCode \in finishedJobs[message.clientID]
    THEN "finished"
    ELSE "queue"

\* AddCodeBranch without the test of _finishedJobs
AddCodeBranch_NoFinishedTest(message) ==
    IF /\ message.clientID \in DOMAIN runningJobs
       /\ message.ytCode \in runningJobs[message.clientID]
    THEN "running"
    ELSE "queue"

\* the branch of processMsgAddCode the message takes
AddCodeBranch(message) ==
    IF /\ message.clientID \in DOMAIN runningJobs
       /\ message.ytCode \in runningJobs[message.clientID]
    THEN "running"
    ELSE IF /\ message.clientID \in DOMAIN finishedJobs
            /\ message.ytCode \in finishedJobs[message.clientID]
    THEN "finished"
    ELSE "queue"

AddCodeAccept(message, o) ==
    Post(_dumpQueued([o EXCEPT !.queued = @ \cup {Job(message.clientID, message.ytCode)}]),
         MsgAllocate)

processMsgAddCode(message) ==
    LET branch == AddCodeBranch(message)
        Accept(o) == AddCodeAccept(message, o)
    IN  IF branch = "running"
        THEN {SendThen(Unchanged, message.clientID,
                       MsgResponse(message.queryID, TextAlreadyBeingProcessed(message.ytCode)),
                       Identity)}
        ELSE IF branch = "finished"
        THEN {SendThen(Unchanged, message.clientID,
                       MsgResponse(message.queryID, TextAlreadyProcessed(message.ytCode)),
                       Identity)}
        ELSE {SendThen(Unchanged, message.clientID,
                       MsgResponse(message.queryID, TextQueued(message.ytCode)),
                       Accept)}

\* ytconnector.getYTList: (codes, "") with a non-empty set of codes, or
\* (None, error text); isNone tells the two apart
getYTList ==
    {[isNone |-> TRUE, codes |-> {}, err |-> "unknown yt_dlp failure"]} \cup
    {[isNone |-> FALSE, codes |-> codes, err |-> ""] : codes \in (SUBSET Items) \ {{}}}

\* both branches read message.responseBuffer, an attribute MsgAddList lacks
processMsgAddList(message) ==
    {IF result.isNone
     THEN Raise(Unchanged, "AttributeError")
     ELSE Raise(Unchanged, "AttributeError") : result \in getYTList}

\* AckTarget that ignores message.success
AckTarget_AlwaysFinished(message) == "finished"

\* the job set an Ack moves the job into
AckTarget(message) == IF message.success THEN "finished" ELSE "failed"

processMsgAck(message) ==
    LET clientID == message.job[1]
        ytCode == message.job[2]
    IN  IF clientID \notin DOMAIN runningJobs \/ ytCode \notin runningJobs[clientID]
        THEN {Raise(Unchanged, "KeyError")}
        ELSE LET removed == [Unchanged EXCEPT !.running[clientID] = @ \ {ytCode}]
                 moved == IF AckTarget(message) = "finished"
                          THEN [removed EXCEPT !.finished = DictSetAdd(@, clientID, ytCode)]
                          ELSE [removed EXCEPT !.failed = DictSetAdd(@, clientID, ytCode)]
             IN  {Post(_dumpAll(moved), MsgAllocate)}

\* set.update(dict) adds the dict's keys
SetUpdate(q, d) == q \cup {PyInt(k) : k \in DOMAIN d}

processMsgRetry(message) ==
    {Post(_dumpFailed(_dumpQueued([Unchanged EXCEPT !.queued = SetUpdate(@, failedJobs),
                                                      !.failed = EmptyDict])),
          MsgAllocate)}

processMsgDiscard(message) ==
    {_dumpFailed([Unchanged EXCEPT !.failed = EmptyDict])}

\* _printQueue(q, k, label): the label and the codes of q[k]; here the
\* section is the pair of the label and the set of codes, "" as <<>>
_printQueue(q, k, label) ==
    IF k \notin DOMAIN q THEN <<>>
    ELSE IF q[k] # {} THEN <<[codes |-> q[k], label |-> label]>>
    ELSE <<>>

\* the text of the List reply: the non-empty sections, joined in this order
ListText(clientID) ==
    _printQueue(finishedJobs, clientID, "finished codes:") \o
    _printQueue(failedJobs, clientID, "failed codes:") \o
    _printQueue(runningJobs, clientID, "codes in process:")

\* _printQueue on the set _queuedJobs: "" unless the int k is an element,
\* and then q[k] on a set is a TypeError
processMsgList(message) ==
    IF PyInt(message.clientID) \in queuedJobs
    THEN {Raise(Unchanged, "TypeError")}
    ELSE {SendThen(Unchanged, message.clientID,
                   MsgResponse(message.queryID, ListText(message.clientID)),
                   Identity)}

\* worker.free() as the server thread reads it
free(w) == workers[w].free

\* the loop of processMsgAllocate from worker w on: set.pop() takes any element
RECURSIVE AllocateFrom(_, _)
AllocateFrom(w, o) ==
    IF w >= numThreads THEN {o}
    ELSE IF ~free(w) THEN AllocateFrom(w + 1, o)
    ELSE IF o.queued = {} THEN AllocateFrom(w + 1, o)
    ELSE UNION {
        LET popped == [o EXCEPT !.queued = @ \ {job}]
        IN  IF ~IsJob(job)
            THEN {Raise(popped, "AttributeError")}
            ELSE AllocateFrom(w + 1,
                    [_dumpProcessing(_dumpQueued(
                        [popped EXCEPT !.running = DictSetAdd(@, job[1], job[2])]))
                     EXCEPT !.tasks[w] = Append(@, MsgTask(job))])
        : job \in o.queued }

processMsgAllocate(message) == AllocateFrom(0, Unchanged)

(* --------------------- the server's message loop ----------------------- *)

\* The handler has run on the head of the mailbox with outcome o.  An
\* exception of a handler is kept in raised; a message loop that ends with it
\* is a server that takes no further step, which every behaviour allows.
Commit(message, o) ==
    /\ messages' = Tail(messages) \o o.posted
    /\ queuedJobs' = o.queued
    /\ failedJobs' = o.failed
    /\ runningJobs' = o.running
    /\ finishedJobs' = o.finished
    /\ clients' = o.clients
    /\ files' = o.files
    /\ workers' = [w \in Workers |->
                     [workers[w] EXCEPT !.messages = @ \o o.tasks[w]]]
    /\ handled' = message
    /\ sent' = o.sent
    /\ dumped' = o.dumped
    /\ raised' = o.raised
    /\ UNCHANGED <<numThreads, connections, clock>>
    /\ UNCHANGED periphery

Receives(type) == messages # <<>> /\ Head(messages).type = type

ProcessMsgConnected ==
    /\ Receives("MsgConnected")
    /\ \E o \in processMsgConnected(Head(messages)) : Commit(Head(messages), o)

ProcessMsgDisconnected ==
    /\ Receives("MsgDisconnected")
    /\ \E o \in processMsgDisconnected(Head(messages)) : Commit(Head(messages), o)

ProcessMsgAck ==
    /\ Receives("MsgAck")
    /\ \E o \in processMsgAck(Head(messages)) : Commit(Head(messages), o)

ProcessMsgAllocate ==
    /\ Receives("MsgAllocate")
    /\ \E o \in processMsgAllocate(Head(messages)) : Commit(Head(messages), o)

ProcessMsgAddCode ==
    /\ Receives("MsgAddCode")
    /\ \E o \in processMsgAddCode(Head(messages)) : Commit(Head(messages), o)

ProcessMsgAddList ==
    /\ Receives("MsgAddList")
    /\ \E o \in processMsgAddList(Head(messages)) : Commit(Head(messages), o)

ProcessMsgRetry ==
    /\ Receives("MsgRetry")
    /\ \E o \in processMsgRetry(Head(messages)) : Commit(Head(messages), o)

ProcessMsgDiscard ==
    /\ Receives("MsgDiscard")
    /\ \E o \in processMsgDiscard(Head(messages)) : Commit(Head(messages), o)

ProcessMsgList ==
    /\ Receives("MsgList")
    /\ \E o \in processMsgList(Head(messages)) : Commit(Head(messages), o)

serverVars == <<clients, queuedJobs, failedJobs, runningJobs, finishedJobs,
                files, handled, sent, dumped, raised>>

(* ------------------------------ Worker --------------------------------- *)

\* YTConnector.download: (True, "") or (False, error text)
download == {<<TRUE, "">>, <<FALSE, "unknown yt_dlp failure">>}

\* the worker takes a MsgTask out of its mailbox; processMsgTask begins
\* with self._free = False
WorkerTask(w) ==
    /\ workers[w].pc = "idle"
    /\ workers[w].messages # <<>>
    /\ workers' = [workers EXCEPT ![w] = [messages |-> Tail(@.messages),
                                          job |-> Head(@.messages).job,
                                          free |-> FALSE,
                                          pc |-> "download"]]
    /\ UNCHANGED <<numThreads, connections, messages, clock>>
    /\ UNCHANGED <<serverVars, periphery>>

\* the download returns and the worker hands MsgAck to the server
WorkerAck(w) ==
    /\ workers[w].pc = "download"
    /\ \E result \in download :
          messages' = Append(messages, MsgAck(workers[w].job, result[1], result[2]))
    /\ workers' = [workers EXCEPT ![w].pc = "acked"]
    /\ UNCHANGED <<numThreads, connections, clock>>
    /\ UNCHANGED <<serverVars, periphery>>

\* the last statement of processMsgTask: self._free = True
WorkerFree(w) ==
    /\ workers[w].pc = "acked"
    /\ workers' = [workers EXCEPT ![w].pc = "idle", ![w].free = TRUE, ![w].job = NoJob]
    /\ UNCHANGED <<numThreads, connections, messages, clock>>
    /\ UNCHANGED <<serverVars, periphery>>

WorkerTakesTask == \E w \in Workers : WorkerTask(w)
WorkerHandsAck == \E w \in Workers : WorkerAck(w)
WorkerSetsFree == \E w \in Workers : WorkerFree(w)

(* ---------------------- Communicator and Protocol ---------------------- *)

\* Communicator._receive starts for an accepted connection: the connection
\* is appended and Protocol.cbkConnected posts MsgConnected
AcceptConnection ==
    /\ connections' = Append(connections, "open")
    /\ messages' = Append(messages, MsgConnected(Len(connections)))
    /\ UNCHANGED <<numThreads, workers, clock>>
    /\ UNCHANGED <<serverVars, periphery>>

\* Communicator._receive ends: the slot becomes None and
\* Protocol.cbkDisconnected posts MsgDisconnected
Disconnect(clientID) ==
    /\ connections[clientID + 1] = "open"
    /\ connections' = [connections EXCEPT ![clientID + 1] = None]
    /\ messages' = Append(messages, MsgDisconnected(clientID))
    /\ UNCHANGED <<numThreads, workers, clock>>
    /\ UNCHANGED <<serverVars, periphery>>

\* the first client connects
Accept ==
    /\ Len(connections) \in ClientIDs
    /\ AcceptConnection

\* a second client connects
AcceptSecond ==
    /\ Len(connections) = 1
    /\ AcceptConnection

ReceiveLoopEnds == \E c \in 0 .. Len(connections) - 1 : Disconnect(c)

\* Protocol.threadCode hands a decoded request to the server as it was
\* pickled: nothing on the way writes its clientID
Deliver(message) ==
    /\ Len(connections) > 0
    /\ clock < MaxRequests
    /\ clock' = clock + 1
    /\ messages' = Append(messages, message)
    /\ UNCHANGED <<numThreads, connections, workers>>
    /\ UNCHANGED <<serverVars, periphery>>

\* RequestMsg.__init__: queryID = time.monotonic_ns()
NextQueryID == clock + 1

\* the connections a packet can have arrived on (Packet.sender)
Senders == 0 .. Len(connections) - 1

\* the values the clientID attribute of a delivered request carries: the
\* default of BaseMsg, which czytget's client leaves as it is, or the id of
\* an accepted connection
CarriedIDs == {DefaultClientID} \cup Senders

DeliverAddCode ==
    \E s \in Senders, c \in CarriedIDs, code \in Items :
        Deliver(Received(s, MsgAddCode(c, NextQueryID, code)))
DeliverAddList ==
    \E s \in Senders, c \in CarriedIDs, code \in Playlists :
        Deliver(Received(s, MsgAddList(c, NextQueryID, code)))
DeliverRetry == \E s \in Senders : Deliver(Received(s, MsgRetry))
DeliverDiscard == \E s \in Senders : Deliver(Received(s, MsgDiscard))
DeliverList == \E s \in Senders, c \in CarriedIDs : Deliver(Received(s, MsgList(c, NextQueryID)))

(* ------------------------------ Spec ----------------------------------- *)

Next ==
    \/ ProcessMsgConnected
    \/ ProcessMsgDisconnected
    \/ ProcessMsgAck
    \/ ProcessMsgAllocate
    \/ ProcessMsgAddCode
    \/ ProcessMsgAddList
    \/ ProcessMsgRetry
    \/ ProcessMsgDiscard
    \/ ProcessMsgList
    \/ WorkerTakesTask
    \/ WorkerHandsAck
    \/ WorkerSetsFree
    \/ Accept
    \/ ReceiveLoopEnds
    \/ DeliverAddCode
    \/ DeliverAddList
    \/ DeliverRetry
    \/ DeliverDiscard
    \/ DeliverList

Spec == Init /\ [][Next]_vars

\* one step of the server thread
ServerStep ==
    \/ ProcessMsgConnected
    \/ ProcessMsgDisconnected
    \/ ProcessMsgAck
    \/ ProcessMsgAllocate
    \/ ProcessMsgAddCode
    \/ ProcessMsgAddList
    \/ ProcessMsgRetry
    \/ ProcessMsgDiscard
    \/ ProcessMsgList

\* one step of the thread of worker w
WorkerStep(w) == w \in Workers /\ (WorkerTask(w) \/ WorkerAck(w) \/ WorkerFree(w))

\* the server thread and every worker thread keep running, and every
\* download returns
SpecFair ==
    /\ Spec
    /\ WF_vars(ServerStep)
    /\ \A w \in 0 .. MaxThreads - 1 : WF_vars(WorkerStep(w))

\* the same server with up to two clients connected
NextTwoClients ==
    \/ Next
    \/ AcceptSecond

SpecTwoClients == Init /\ [][NextTwoClients]_vars

(* ------------------- any Message a peer can pickle --------------------- *)

\* Protocol.threadCode passes on every decoded object whose class derives
\* from czthreading.Message: the classes of msg/server.py and msg/protocol.py
\* pass that test as the requests of msg/client.py do
DeliverAck ==
    \E s \in Senders, c \in CarriedIDs, code \in Items, success \in BOOLEAN :
        Deliver(Received(s, MsgAck(Job(c, code), success, "")))
DeliverAllocate == \E s \in Senders : Deliver(Received(s, MsgAllocate))
DeliverConnected == \E s \in Senders, c \in 0 .. 1 : Deliver(Received(s, MsgConnected(c)))
DeliverDisconnected == \E s \in Senders, c \in 0 .. 1 : Deliver(Received(s, MsgDisconnected(c)))

NextWire ==
    \/ Next
    \/ DeliverAck
    \/ DeliverAllocate
    \/ DeliverConnected
    \/ DeliverDisconnected

SpecWire == Init /\ [][NextWire]_vars

(* ---------------------- Serialiser and Protocol ------------------------ *)

\* frames the peers write during a run
MaxFrames == 2

\* Serialiser._START and Serialiser._END, shortened to their first and last
\* byte; a byte is a one-character string
_START == <<"$", ">">>
_END == <<"<", "LF">>
_lenSTART == Len(_START)
_lenEND == Len(_END)

\* the pickles on the wire: the body of a frame is one byte that names the
\* object it unpickles to; every other body is not a pickle
Pickles ==
    [b \in {"a", "l"} |->
        IF b = "a" THEN MsgAddCode(DefaultClientID, 1, "AAAAAAAAAAA")
        ELSE MsgList(DefaultClientID, 2)]
Bodies == DOMAIN Pickles \cup {"?"}

\* Serialiser._unpickle: the object, or SerialiserError
_unpickle(data) ==
    IF Len(data) = 1 /\ data[1] \in DOMAIN Pickles
    THEN [raised |-> "", obj |-> Pickles[data[1]]]
    ELSE [raised |-> "SerialiserError", obj |-> NoMessage]

\* Serialiser.encode for the object with pickle <<body>>
encode(body) == _START \o <<body>> \o _END

\* bytes.find: the lowest index (from 0) where sub begins, -1 if nowhere
find(bytes, sub) ==
    LET at == {i \in 0 .. Len(bytes) - Len(sub) :
                  SubSeq(bytes, i + 1, i + Len(sub)) = sub}
    IN  IF at = {} THEN -1 ELSE CHOOSE i \in at : \A j \in at : i <= j

\* bytes[k:]
From(bytes, k) == SubSeq(bytes, k + 1, Len(bytes))

\* Serialiser.addAndDecode(data, ID) on the buffers bufs: the buffers it
\* leaves, and None, the decoded object or the exception of _unpickle
addAndDecode(bufs, data, ID) ==
    LET added == IF ID \in DOMAIN bufs THEN bufs[ID] \o data ELSE data
        start == find(added, _START)
        fromStart == From(added, start)
        end == find(fromStart, _END)
        body == SubSeq(fromStart, _lenSTART + 1, end)
        rest == From(fromStart, end + _lenEND)
        unpickled == _unpickle(body)
    IN  IF start = -1
        THEN [raised |-> "", buffers |-> DictPut(bufs, ID, added),
              isNone |-> TRUE, decoded |-> NoMessage]
        ELSE IF end = -1
        THEN [raised |-> "", buffers |-> DictPut(bufs, ID, fromStart),
              isNone |-> TRUE, decoded |-> NoMessage]
        ELSE [raised |-> unpickled.raised, buffers |-> DictPut(bufs, ID, rest),
              isNone |-> FALSE, decoded |-> unpickled.obj]

\* everything but the protocol thread's state and the server's mailbox
aroundProtocol ==
    <<numThreads, connections, workers, clock, serverVars, communicator, client, shutdown>>

\* the bodies of the frames peer c has written so far
Framed(c) == IF c \in DOMAIN protocol.framed THEN protocol.framed[c] ELSE <<>>

\* a peer writes one frame to its socket
PeerWrites(c, body) ==
    /\ connections[c + 1] = "open"
    /\ Len(Framed(0)) + Len(Framed(1)) < MaxFrames
    /\ protocol' = [protocol EXCEPT !.stream[c] = @ \o encode(body),
                                    !.framed[c] = Append(@, body)]
    /\ UNCHANGED <<messages, aroundProtocol>>

PeerWritesFrame == \E c \in Senders, body \in Bodies : PeerWrites(c, body)

\* Communicator._receive: connection.recv returns the next n bytes, and
\* _dispatch and Protocol.cbkReceived pass the Packet on to Protocol._received
RecvData(c, n) ==
    /\ connections[c + 1] = "open"
    /\ protocol' = [protocol EXCEPT
                       !.received = Append(@, [sender |-> c,
                                               data |-> SubSeq(protocol.stream[c], 1, n)]),
                       !.stream[c] = From(@, n)]
    /\ UNCHANGED <<messages, aroundProtocol>>

ReceivePacket == \E c \in Senders : \E n \in 1 .. Len(protocol.stream[c]) : RecvData(c, n)

\* a protocol thread that keeps one buffer for all senders
ProtocolThread_OneBuffer ==
    /\ protocol.raised = ""
    /\ protocol.received # <<>>
    /\ LET packet == Head(protocol.received)
           result == addAndDecode(protocol.buffers, packet.data, 0)
       IN  /\ protocol' = [protocol EXCEPT !.received = Tail(@),
                                           !.buffers = result.buffers,
                                           !.raised = result.raised]
           /\ messages' = IF result.raised = "" /\ ~result.isNone
                          THEN Append(messages, Received(packet.sender, result.decoded))
                          ELSE messages
    /\ UNCHANGED aroundProtocol

\* one turn of the loop of Protocol.threadCode with a packet in the queue;
\* only queue.Empty is caught, any other exception ends the loop
ProtocolThread ==
    /\ protocol.raised = ""
    /\ protocol.received # <<>>
    /\ LET packet == Head(protocol.received)
           result == addAndDecode(protocol.buffers, packet.data, packet.sender)
       IN  /\ protocol' = [protocol EXCEPT !.received = Tail(@),
                                           !.buffers = result.buffers,
                                           !.raised = result.raised]
           /\ messages' = IF result.raised = "" /\ ~result.isNone
                          THEN Append(messages, Received(packet.sender, result.decoded))
                          ELSE messages
    /\ UNCHANGED aroundProtocol

\* the peers' connections come up with nothing written yet
AcceptPeer ==
    /\ Len(connections) < 2
    /\ connections' = Append(connections, "open")
    /\ messages' = Append(messages, MsgConnected(Len(connections)))
    /\ protocol' = [protocol EXCEPT !.stream = DictPut(@, Len(connections), <<>>),
                                    !.framed = DictPut(@, Len(connections), <<>>)]
    /\ UNCHANGED <<numThreads, workers, clock, serverVars, communicator, client, shutdown>>

NextProtocol ==
    \/ AcceptPeer
    \/ PeerWritesFrame
    \/ ReceivePacket
    \/ ProtocolThread

SpecProtocol == Init /\ [][NextProtocol]_vars

\* connection.recv returns b"" once the peer has closed and every byte it
\* wrote has been read: the read loop ends and posts MsgDisconnected itself,
\* while the packets it has queued are still on their way
EndOfStream(c) ==
    /\ protocol.stream[c] = <<>>
    /\ Disconnect(c)

PeerCloses == \E c \in Senders : EndOfStream(c)

NextOrdering ==
    \/ NextProtocol
    \/ PeerCloses

SpecOrdering == Init /\ [][NextOrdering]_vars

(* ------------------- Communicator: accept and read loops --------------- *)

\* connections the accept loop takes during a run
MaxConnections == 2

aroundCommunicator == <<numThreads, workers, clock, serverVars, protocol, client, shutdown>>

\* Communicator.threadCode: accept() returns a connection and the thread
\* that will run _receive for it is started; accepted numbers them
AcceptThread ==
    /\ communicator.running
    /\ communicator.acceptLoop = "running"
    /\ communicator.accepted < MaxConnections
    /\ communicator' = [communicator EXCEPT !.accepted = @ + 1,
                                            !.starting = @ \cup {communicator.accepted + 1}]
    /\ UNCHANGED <<connections, messages, aroundCommunicator>>

\* the beginning of _receive in the thread of the connection accepted n-th:
\* under the lock clientID = len(_connections) and the append; cbkConnected
Register(n) ==
    /\ n \in communicator.starting
    /\ connections' = Append(connections, "open")
    /\ communicator' = [communicator EXCEPT !.starting = @ \ {n},
                                            !.acceptNo = Append(@, n),
                                            !.recv = DictPut(@, Len(connections), "")]
    /\ messages' = Append(messages, MsgConnected(Len(connections)))
    /\ UNCHANGED aroundCommunicator

ReadLoopStarts == \E n \in communicator.starting : Register(n)

\* connection.recv raises TimeoutError or another OSError: continue
RecvRaises(c, exception) ==
    /\ communicator.running
    /\ connections[c + 1] = "open"
    /\ communicator' = [communicator EXCEPT !.recv[c] = exception]
    /\ UNCHANGED <<connections, messages, aroundCommunicator>>

RecvTimesOut == \E c \in Senders : RecvRaises(c, "TimeoutError")
RecvFails == \E c \in Senders : RecvRaises(c, "OSError")

\* connection.recv returns b"": break, and connection.close()
RecvEOF(c) ==
    /\ communicator.running
    /\ connections[c + 1] = "open"
    /\ communicator' = [communicator EXCEPT !.recv[c] = "eof"]
    /\ connections' = [connections EXCEPT ![c + 1] = "shut"]
    /\ UNCHANGED <<messages, aroundCommunicator>>

RecvEnds == \E c \in Senders : RecvEOF(c)

\* the end of _receive: under the lock the slot becomes None; cbkDisconnected
NullSlot(c) ==
    /\ connections[c + 1] = "shut"
    /\ connections' = [connections EXCEPT ![c + 1] = None]
    /\ messages' = Append(messages, MsgDisconnected(c))
    /\ UNCHANGED <<communicator, aroundCommunicator>>

SlotNulled == \E c \in Senders : NullSlot(c)

NextCommunicator ==
    \/ AcceptThread
    \/ ReadLoopStarts
    \/ RecvTimesOut
    \/ RecvFails
    \/ RecvEnds
    \/ SlotNulled
    \/ DeliverList
    \/ ProcessMsgConnected
    \/ ProcessMsgDisconnected
    \/ ProcessMsgList

SpecCommunicator == Init /\ [][NextCommunicator]_vars

\* the read loop of _receive keeps turning (whatever recv gives it), and its
\* end runs once the loop is left
SpecCommunicatorFair ==
    /\ SpecCommunicator
    /\ WF_vars(RecvTimesOut \/ RecvFails \/ RecvEnds)
    /\ WF_vars(SlotNulled)

(* ------------------- Communicator: stopping the transport -------------- *)

\* stop() is called on the transport: running() is false from now on
StopTransport ==
    /\ communicator.running
    /\ communicator' = [communicator EXCEPT !.running = FALSE]
    /\ UNCHANGED <<connections, messages, aroundCommunicator>>

\* the while test of the accept loop fails: self._connector.close()
AcceptLoopEnds ==
    /\ ~communicator.running
    /\ communicator.acceptLoop = "running"
    /\ communicator' = [communicator EXCEPT !.acceptLoop = "ended", !.listener = "closed"]
    /\ UNCHANGED <<connections, messages, aroundCommunicator>>

\* accept() raises an OSError that is not TimeoutError: only TimeoutError is
\* caught, so the exception leaves threadCode, with the listening socket open
AcceptFails ==
    /\ communicator.running
    /\ communicator.acceptLoop = "running"
    /\ communicator' = [communicator EXCEPT !.acceptLoop = "OSError", !.thread = "OSError"]
    /\ UNCHANGED <<connections, messages, aroundCommunicator>>

\* the beginning of _receive for a connection whose peer has already reset
\* it: the socket is registered, and in cbkConnected clientName calls
\* getpeername, which raises OSError; the thread ends there, before
\* MsgConnected is posted, with the socket open and in its slot
RegisterOrphan(n) ==
    /\ n \in communicator.starting
    /\ connections' = Append(connections, "orphan")
    /\ communicator' = [communicator EXCEPT !.starting = @ \ {n},
                                            !.acceptNo = Append(@, n),
                                            !.recv = DictPut(@, Len(connections), "OSError")]
    /\ UNCHANGED <<messages, aroundCommunicator>>

ConnectedFails == \E n \in communicator.starting : RegisterOrphan(n)

\* the while test of a read loop fails: connection.close()
SeesStop(c) ==
    /\ ~communicator.running
    /\ connections[c + 1] = "open"
    /\ connections' = [connections EXCEPT ![c + 1] = "shut"]
    /\ UNCHANGED <<messages, communicator, aroundCommunicator>>

ReadLoopSeesStop == \E c \in Senders : SeesStop(c)

\* the while test of _dispatch fails
DispatcherEnds ==
    /\ ~communicator.running
    /\ communicator.dispatcher = "running"
    /\ communicator' = [communicator EXCEPT !.dispatcher = "ended"]
    /\ UNCHANGED <<connections, messages, aroundCommunicator>>

\* the end of threadCode: every thread of self._threads has been joined
ThreadsJoined ==
    /\ communicator.thread = "running"
    /\ communicator.acceptLoop = "ended"
    /\ communicator.dispatcher = "ended"
    /\ communicator.starting = {}
    /\ \A i \in 1 .. Len(connections) : connections[i] \in {None, "orphan"}
    /\ communicator' = [communicator EXCEPT !.thread = "ended"]
    /\ UNCHANGED <<connections, messages, aroundCommunicator>>

\* the transport alone: what it posts stays in the mailbox, in order
NextTransport ==
    \/ AcceptThread
    \/ AcceptFails
    \/ ReadLoopStarts
    \/ ConnectedFails
    \/ RecvTimesOut
    \/ RecvFails
    \/ RecvEnds
    \/ SlotNulled
    \/ StopTransport
    \/ AcceptLoopEnds
    \/ ReadLoopSeesStop
    \/ DispatcherEnds
    \/ ThreadsJoined

SpecTransport == Init /\ [][NextTransport]_vars

\* every loop of the transport keeps turning
SpecTransportFair ==
    /\ SpecTransport
    /\ WF_vars(AcceptLoopEnds)
    /\ WF_vars(ReadLoopStarts \/ ConnectedFails)
    /\ WF_vars(ReadLoopSeesStop)
    /\ WF_vars(SlotNulled)
    /\ WF_vars(DispatcherEnds)
    /\ WF_vars(ThreadsJoined)

(* --------------------- connection notices to the server ---------------- *)

\* MsgConnected and MsgDisconnected messages put into the server's mailbox
MaxNotices == 3

\* Server.comm(MsgConnected(clientID)) or Server.comm(MsgDisconnected(clientID))
\* for any clientID, in any order and number
PostNotice(message) ==
    /\ clock < MaxNotices
    /\ clock' = clock + 1
    /\ messages' = Append(messages, message)
    /\ UNCHANGED <<numThreads, connections, workers, serverVars, periphery>>

PostConnected == \E c \in 0 .. 1 : PostNotice(MsgConnected(c))
PostDisconnected == \E c \in 0 .. 1 : PostNotice(MsgDisconnected(c))

NextClientRecords ==
    \/ PostConnected
    \/ PostDisconnected
    \/ ProcessMsgConnected
    \/ ProcessMsgDisconnected

SpecClientRecords == Init /\ [][NextClientRecords]_vars

(* ------------------------------ the client ----------------------------- *)

\* commands typed at the prompt, and responses the server sends, during a run
MaxCommands == 3
MaxResponses == 2
\* the queryIDs a response can carry
MaxQueryID == 3

aroundClient ==
    <<numThreads, connections, messages, workers, clock, serverVars,
      protocol, communicator, shutdown>>

\* the text _messageLoop stores in _killSwitch
KillSwitchText == "error: connection to server interrupted; client has to close"

\* message.msgType() of a message in the client's mailbox
msgType(message) == IF "type" \in DOMAIN message THEN message.type ELSE "MsgResponse"

\* the queryIDs of the requests the client has sent
RequestedIDs ==
    {client.requests[i].queryID :
        i \in {j \in 1 .. Len(client.requests) : "queryID" \in DOMAIN client.requests[j]}}

\* Client.threadCode: the message loop thread and the connector are started
ThreadCodeStarts ==
    /\ client.msgLoop = "created"
    /\ client' = [client EXCEPT !.msgLoop = "running", !.connection = "starting"]
    /\ UNCHANGED aroundClient

\* Communicator._receive in client mode: the socket is registered and
\* cbkConnected(0) puts MsgConnected into the client's mailbox
ClientConnected ==
    /\ client.connection = "starting"
    /\ client' = [client EXCEPT !.connection = "open",
                                !.messages = Append(@, MsgConnected(0))]
    /\ UNCHANGED aroundClient

\* Client.threadCode: _cmdLoopRunning = True and cmdloop() begins
CmdLoopStarts ==
    /\ client.msgLoop # "created"
    /\ client.cmdLoop = "created"
    /\ client' = [client EXCEPT !.cmdLoopRunning = TRUE, !.cmdLoop = "running"]
    /\ UNCHANGED aroundClient

\* the server's MsgResponse, decoded by the protocol layer, reaches the mailbox
ServerResponds ==
    /\ client.connection = "open"
    /\ client.responses < MaxResponses
    /\ \E queryID \in 1 .. MaxQueryID, text \in {"queued"} :
          client' = [client EXCEPT !.messages = Append(@, MsgResponse(queryID, text)),
                                   !.responses = @ + 1]
    /\ UNCHANGED aroundClient

\* the connection to the server is lost: recv returns b"", the read loop
\* ends and cbkDisconnected(0) puts MsgDisconnected into the mailbox
ConnectionLost ==
    /\ client.connection = "open"
    /\ client' = [client EXCEPT !.connection = "lost",
                                !.messages = Append(@, MsgDisconnected(0)),
                                !.notified = client.cmdLoopRunning]
    /\ UNCHANGED aroundClient

\* one turn of Client._messageLoop on the message it takes from the mailbox
_messageLoop(c, message) ==
    IF msgType(message) = "MsgConnected" THEN c
    ELSE IF msgType(message) = "MsgDisconnected"
    THEN IF c.cmdLoopRunning THEN [c EXCEPT !.killSwitch = KillSwitchText] ELSE c
    ELSE IF msgType(message) = "MsgResponse"
    THEN [c EXCEPT !.msgLoop = "NotImplementedError"]
    ELSE c

MessageLoop ==
    /\ client.msgLoop = "running"
    /\ client.messages # <<>>
    /\ client' = _messageLoop([client EXCEPT !.messages = Tail(@)], Head(client.messages))
    /\ UNCHANGED aroundClient

\* the while test of _messageLoop finds _processingMessages False
MessageLoopEnds ==
    /\ client.msgLoop = "running"
    /\ ~client.processingMessages
    /\ client' = [client EXCEPT !.msgLoop = "ended"]
    /\ UNCHANGED aroundClient

\* Client._checkKillSwitch
_checkKillSwitch(c) == IF c.killSwitch # None THEN "KillSwitch" ELSE ""

\* self._connector.send(message)
ClientSend(c, message) == [c EXCEPT !.requests = Append(@, message)]

\* the request do_a builds for a code of 11 or of 34 characters
AddRequest(queryID, ytCode) ==
    IF ytCode \in Items THEN MsgAddCode(DefaultClientID, queryID, ytCode)
    ELSE MsgAddList(DefaultClientID, queryID, ytCode)

\* Client._waitForResponse: pass
_waitForResponse(c, queryID) == c

\* the for loop of do_a over the codes from the i-th on; the queryID of a
\* request is its time.monotonic_ns(), later than that of every request before
RECURSIVE AddCodes(_, _, _)
AddCodes(c, codes, i) ==
    IF i > Len(codes) THEN c
    ELSE LET queryID == Len(c.requests) + 1
         IN  AddCodes(_waitForResponse(ClientSend(c, AddRequest(queryID, codes[i])), queryID),
                      codes, i + 1)

do_a(c, codes) ==
    IF _checkKillSwitch(c) # "" THEN [c EXCEPT !.raised = _checkKillSwitch(c)]
    ELSE AddCodes(c, codes, 1)

\* the codes a file holds
FileCodes == <<"AAAAAAAAAAA", "BBBBBBBBBBB">>

\* do_f with one file: the kill switch test, then do_a on what the file holds
do_f(c, codes) ==
    IF _checkKillSwitch(c) # "" THEN [c EXCEPT !.raised = _checkKillSwitch(c)]
    ELSE do_a(c, codes)

do_r(c) ==
    IF _checkKillSwitch(c) # "" THEN [c EXCEPT !.raised = _checkKillSwitch(c)]
    ELSE ClientSend(c, MsgRetry)

do_d(c) ==
    IF _checkKillSwitch(c) # "" THEN [c EXCEPT !.raised = _checkKillSwitch(c)]
    ELSE ClientSend(c, MsgDiscard)

\* MsgList(responseBuffer): MsgList.__init__ takes no argument
do_l(c) ==
    IF _checkKillSwitch(c) # "" THEN [c EXCEPT !.raised = _checkKillSwitch(c)]
    ELSE [c EXCEPT !.raised = "TypeError"]

do_help(c) ==
    IF _checkKillSwitch(c) # "" THEN [c EXCEPT !.raised = _checkKillSwitch(c)]
    ELSE [c EXCEPT !.stdout = Append(@, "Commands")]

\* do_q returns True: the prompt loop ends
do_q(c) == [c EXCEPT !.cmdLoop = "ended"]

\* Client.threadCode after cmdloop(): KillSwitch is caught and the rest of
\* threadCode runs, as it does after do_q; any other exception leaves
\* threadCode at once
threadCodeTail(c) ==
    IF c.raised = "KillSwitch"
    THEN [c EXCEPT !.stdout = Append(@, c.killSwitch), !.cmdLoop = "ended",
                   !.cmdLoopRunning = FALSE, !.processingMessages = FALSE]
    ELSE IF c.raised # "" THEN [c EXCEPT !.cmdLoop = "ended"]
    ELSE IF c.cmdLoop = "ended"
    THEN [c EXCEPT !.cmdLoopRunning = FALSE, !.processingMessages = FALSE]
    ELSE c

\* the caller enters a command at the prompt
Entered ==
    /\ client.cmdLoop = "running"
    /\ client.entered < MaxCommands

Command(after) ==
    /\ Entered
    /\ client' = threadCodeTail([after EXCEPT !.entered = @ + 1])
    /\ UNCHANGED aroundClient

CommandAdd == \E ytCode \in Items \cup Playlists : Command(do_a(client, <<ytCode>>))
CommandFile == Command(do_f(client, FileCodes))
CommandRetry == Command(do_r(client))
CommandDiscard == Command(do_d(client))
CommandList == Command(do_l(client))
CommandHelp == Command(do_help(client))
CommandQuit == Command(do_q(client))

\* the commands that test the kill switch
CheckedCommand ==
    CommandAdd \/ CommandFile \/ CommandRetry \/ CommandDiscard \/ CommandList \/ CommandHelp

NextClient ==
    \/ ThreadCodeStarts
    \/ ClientConnected
    \/ CmdLoopStarts
    \/ ServerResponds
    \/ ConnectionLost
    \/ MessageLoop
    \/ MessageLoopEnds
    \/ CommandAdd
    \/ CommandFile
    \/ CommandRetry
    \/ CommandDiscard
    \/ CommandList
    \/ CommandHelp
    \/ CommandQuit

SpecClient == Init /\ [][NextClient]_vars

(* --------------------------- stopping the server ----------------------- *)

aroundShutdown ==
    <<numThreads, connections, messages, clock, serverVars, protocol, communicator, client>>

\* the cookie file of worker w
cookieFile(w) == w

\* the server's message loop and the protocol layer run until the server
\* is stopped
ServerRuns ==
    \/ shutdown.pc = "running" /\ Accept
    \/ shutdown.pc = "running" /\ DeliverAddCode
    \/ shutdown.pc = "running" /\ ProcessMsgConnected
    \/ shutdown.pc = "running" /\ ProcessMsgAddCode
    \/ shutdown.pc = "running" /\ ProcessMsgAllocate
    \/ shutdown.pc = "running" /\ ProcessMsgAck

\* Server.threadCodePost begins: self._connector.stop(); self._connector.wait()
StopConnector ==
    /\ shutdown.pc = "running"
    /\ shutdown' = [shutdown EXCEPT !.pc = "workers"]
    /\ UNCHANGED <<workers, aroundShutdown>>

\* one turn of the for loop over self._workers: the worker's cookie file is
\* noted and worker.stop() is called; nothing waits for the worker
StopWorker ==
    /\ shutdown.pc = "workers"
    /\ LET w == Len(shutdown.cookieFiles)
       IN  shutdown' = [shutdown EXCEPT
                !.cookieFiles = Append(@, cookieFile(w)),
                !.told = @ \cup {w},
                !.pc = IF w + 1 = numThreads THEN "merge" ELSE "workers"]
    /\ UNCHANGED <<workers, aroundShutdown>>

\* a worker that has been told to stop leaves its loop when it is between
\* two messages; Worker.threadCodePost closes yt_dlp
WorkerStops(w) ==
    /\ w \in shutdown.told
    /\ workers[w].pc = "idle"
    /\ workers' = [workers EXCEPT ![w].pc = "exited"]
    /\ UNCHANGED <<shutdown, aroundShutdown>>

WorkerExits == \E w \in Workers : WorkerStops(w)

\* ytconnector.mergeCookieFiles(self._cookies, *cookieFiles)
MergeCookieFiles ==
    /\ shutdown.pc = "merge"
    /\ shutdown' = [shutdown EXCEPT !.merged = {shutdown.cookieFiles[i] :
                                                    i \in 1 .. Len(shutdown.cookieFiles)},
                                    !.pc = "remove"]
    /\ UNCHANGED <<workers, aroundShutdown>>

\* for f in cookieFiles: os.remove(f)
RemoveCookieFiles ==
    /\ shutdown.pc = "remove"
    /\ shutdown' = [shutdown EXCEPT !.removed = {shutdown.cookieFiles[i] :
                                                     i \in 1 .. Len(shutdown.cookieFiles)},
                                    !.pc = "done"]
    /\ UNCHANGED <<workers, aroundShutdown>>

NextShutdown ==
    \/ ServerRuns
    \/ WorkerTakesTask
    \/ WorkerHandsAck
    \/ WorkerSetsFree
    \/ StopConnector
    \/ StopWorker
    \/ WorkerExits
    \/ MergeCookieFiles
    \/ RemoveCookieFiles

SpecShutdown == Init /\ [][NextShutdown]_vars

(* ------------------------- the four job sets --------------------------- *)

Queued == queuedJobs
Running == DictJobs(runningJobs)
Finished == DictJobs(finishedJobs)
Failed == DictJobs(failedJobs)

\* the job an AddCode, Task or Ack message is about
JobOf(message) ==
    IF message.type = "MsgAddCode" THEN Job(message.clientID, message.ytCode)
    ELSE message.job

\* Task(job) assignments the server has dispatched and whose Ack it has not
\* processed: in a worker's mailbox, in download, or as an Ack in the mailbox
TasksInMailbox(w, job) ==
    Cardinality({i \in 1 .. Len(workers[w].messages) : workers[w].messages[i].job = job})
TaskInDownload(w, job) ==
    IF workers[w].pc = "download" /\ workers[w].job = job THEN 1 ELSE 0
AcksInMailbox(job) ==
    Cardinality({i \in 1 .. Len(messages) :
                    messages[i].type = "MsgAck" /\ messages[i].job = job})
RECURSIVE TasksFrom(_, _)
TasksFrom(w, job) ==
    IF w >= numThreads THEN 0
    ELSE TasksInMailbox(w, job) + TaskInDownload(w, job) + TasksFrom(w + 1, job)
Outstanding(job) == TasksFrom(0, job) + AcksInMailbox(job)

\* a Task assigned to worker w for which the server has not been handed the Ack
HasTask(w) == workers[w].messages # <<>> \/ workers[w].pc = "download"

\* no message in any mailbox and no handler of the server or a worker running
\* (a worker inside download is between two statements of processMsgTask, and
\* is the busy worker the claims speak of)
Quiescent ==
    /\ messages = <<>>
    /\ \A w \in Workers : workers[w].messages = <<>> /\ workers[w].pc \in {"idle", "download"}

(* ------------------------------ claims --------------------------------- *)

\* C1: every job is in at most one of Queued, Running, Finished, Failed.
C1_StateDisjointness ==
    /\ Queued \cap Running = {}
    /\ Queued \cap Finished = {}
    /\ Queued \cap Failed = {}
    /\ Running \cap Finished = {}
    /\ Running \cap Failed = {}
    /\ Finished \cap Failed = {}

\* C2: the number of jobs in Running is at most numThreads in every state.
C2_BoundedConcurrency == Cardinality(Running) <= numThreads

\* C3: no job ever has two Task assignments outstanding (dispatched by
\* Allocate and not yet acknowledged to the server).
C3_AtMostOnceDispatch ==
    \A clientID \in ClientIDs, ytCode \in Items :
        Outstanding(Job(clientID, ytCode)) <= 1

\* C3 witness: a job that failed before has been added and dispatched again,
\* and that second Task is the one assignment outstanding.
C3_Witness ==
    \E job \in Failed : job \in Running /\ Outstanding(job) = 1

\* C4: at every quiescent instant every worker is busy with a download or
\* Queued is empty.
C4_WorkConservation ==
    Quiescent => ((\A w \in Workers : workers[w].pc = "download") \/ Queued = {})

\* C5: a worker's free flag is true exactly when no Task assigned to it is
\* waiting for its Ack to be handed to the server; the flag goes back to true
\* after the Ack is handed over, so it may still be false right after that.
C5_WorkerFreeFlag ==
    \A w \in Workers :
        /\ free(w) => ~HasTask(w)
        /\ ~free(w) => (HasTask(w) \/ workers[w].pc = "acked")

\* C6: Retry processed while a client has failed jobs F leaves that client
\* with no job in Failed and every job of F in Queued.
C6_RetrySemantics ==
    [][ProcessMsgRetry =>
          \A cid \in DOMAIN failedJobs :
              failedJobs[cid] # {} =>
                  /\ \A job \in Failed' : job[1] # cid
                  /\ {Job(cid, code) : code \in failedJobs[cid]} \subseteq Queued'
       ]_vars

\* C7: the union of the four sets is the set of accepted jobs: a step changes
\* it only by adding the job an AddCode has just answered 'queued'.
AllJobs == Queued \cup Running \cup Finished \cup Failed
AnswersQueued ==
    /\ ProcessMsgAddCode
    /\ sent' # <<>>
    /\ sent'[1].text = "YT code '" \o Head(messages).ytCode \o "' queued"
C7_AcceptedJobsNeverLost ==
    [][AllJobs' = AllJobs \cup (IF AnswersQueued THEN {JobOf(Head(messages))} ELSE {})]_vars

C9_AcceptNewJob ==
    [][(ProcessMsgAddCode /\ JobOf(Head(messages)) \notin Running \cup Finished) =>
          LET message == Head(messages)
          IN  /\ Len(sent') = 1
              /\ sent'[1].to = message.clientID
              /\ sent'[1].queryID = message.queryID
              /\ sent'[1].text = "YT code '" \o message.ytCode \o "' queued"
              /\ JobOf(message) \in Queued'
              /\ messages' = Append(Tail(messages), MsgAllocate)
       ]_vars

\* C10: an Ack takes its job out of Running and puts it into Finished on
\* success and into Failed (not Finished) on failure, rewrites all four files
\* with the sets as they then are, and posts an Allocate.
C10_AckHandling ==
    [][ProcessMsgAck =>
          LET message == Head(messages)
          IN  /\ message.job \notin Running'
              /\ message.success => message.job \in Finished'
              /\ ~message.success => message.job \in Failed' /\ message.job \notin Finished'
              /\ dumped' = _FILE_CANDIDATES
              /\ files'[_QUEUED_FILE] = [written |-> TRUE, data |-> queuedJobs']
              /\ files'[_PROCESSING_FILE] = [written |-> TRUE, data |-> runningJobs']
              /\ files'[_FINISHED_FILE] = [written |-> TRUE, data |-> finishedJobs']
              /\ files'[_FAILED_FILE] = [written |-> TRUE, data |-> failedJobs']
              /\ messages' = Append(Tail(messages), MsgAllocate)
       ]_vars

\* C10 witness: the server has just processed the Ack of a failed download
\* and the job is in Failed.
C10_Witness ==
    /\ handled.type = "MsgAck"
    /\ ~handled.success
    /\ handled.job \in Failed
    /\ handled.job \notin Running
    /\ dumped = _FILE_CANDIDATES

(* ------------------------- replies and senders ------------------------- *)

RequestTypes == {"MsgAddCode", "MsgAddList", "MsgRetry", "MsgDiscard", "MsgList"}

\* the Protocol.send calls of the last handler that put bytes on a socket
Transmitted == {i \in 1 .. Len(sent) : sent[i].result = "sent"}

\* C11: every Response put on a connection carries the queryID of the
\* request being answered, and that request came from the connection the
\* Response is written to.
C11_ResponseCorrelation ==
    \A i \in Transmitted :
        /\ sent[i].queryID = handled.queryID
        /\ sent[i].to = handled.sender

\* C12: the Responses a request produces are addressed to the connection the
\* request arrived on and to no other, and the send does not fail on the
\* target id.
C12_RepliesToSenderOnly ==
    handled.type \in RequestTypes =>
        /\ raised # "ValueError"
        /\ \A i \in 1 .. Len(sent) : sent[i].to = handled.sender

\* C13: every request in the server's mailbox has its clientID equal to the
\* id of the connection its bytes arrived on.
C13_SenderTagging ==
    \A i \in 1 .. Len(messages) :
        messages[i].type \in RequestTypes =>
            /\ "clientID" \in DOMAIN messages[i]
            /\ messages[i].clientID = messages[i].sender

\* C14: AddCode from a client for an item another client has a job for (and
\* the client itself has none in Running or Finished) is answered "queued" to
\* that client, its own job is in Queued when the handler returns, and the
\* other client's job stays where it is.
C14_PerClientJobs ==
    [][ProcessMsgAddCode =>
          LET message == Head(messages)
              own == Job(message.sender, message.ytCode)
              others == {job \in AllJobs : IsJob(job) /\ job[1] # message.sender
                                                       /\ job[2] = message.ytCode}
          IN  (others # {} /\ own \notin Running \cup Finished) =>
                  /\ Len(sent') = 1
                  /\ sent'[1].to = message.sender
                  /\ sent'[1].queryID = message.queryID
                  /\ sent'[1].text = TextQueued(message.ytCode)
                  /\ own \in Queued'
                  /\ others \subseteq AllJobs'
       ]_vars

\* C15: AddList is answered with at least one Response (one per item of the
\* playlist, or one with the error text), every one with the queryID of the
\* request, and the handler raises nothing.
C15_PlaylistExpansion ==
    [][ProcessMsgAddList =>
          /\ raised' = ""
          /\ sent' # <<>>
          /\ \A i \in 1 .. Len(sent') : sent'[i].queryID = Head(messages).queryID
       ]_vars

\* C16: Retry from one client leaves the Failed jobs of every other client in
\* Failed, adds none of them to Queued, and leaves Running and Finished as
\* they are.
C16_RetryScopedToClient ==
    [][ProcessMsgRetry =>
          LET message == Head(messages)
              foreign == {job \in Failed : job[1] # message.sender}
          IN  /\ foreign \subseteq Failed'
              /\ (foreign \ Queued) \cap Queued' = {}
              /\ UNCHANGED <<runningJobs, finishedJobs>>
       ]_vars

\* C17: Discard from a client removes exactly that client's jobs from Failed,
\* leaves Queued, Running and Finished as they are, rewrites the Failed file
\* and no other, and posts no Allocate.
C17_DiscardSemantics ==
    [][ProcessMsgDiscard =>
          LET message == Head(messages)
          IN  /\ Failed' = {job \in Failed : job[1] # message.sender}
              /\ UNCHANGED <<queuedJobs, runningJobs, finishedJobs>>
              /\ dumped' = {_FAILED_FILE}
              /\ files'[_FAILED_FILE] = [written |-> TRUE, data |-> failedJobs']
              /\ messages' = Tail(messages)
       ]_vars

\* the codes a List reply names under a heading
ListedUnder(text, label) ==
    UNION {text[i].codes : i \in {j \in 1 .. Len(text) : text[j].label = label}}

\* the codes of the jobs of clientID in a job set
CodesOf(clientID, jobs) == {job[2] : job \in {j \in jobs : IsJob(j) /\ j[1] = clientID}}

\* C18: the reply to List(cid, qid) names under each of the four headings
\* exactly the codes of cid's jobs in that set, and no job set changes.
C18_ListReply ==
    [][ProcessMsgList =>
          LET cid == Head(messages).clientID
          IN  /\ \A i \in 1 .. Len(sent') :
                    /\ ListedUnder(sent'[i].text, "finished codes:") = CodesOf(cid, Finished)
                    /\ ListedUnder(sent'[i].text, "failed codes:") = CodesOf(cid, Failed)
                    /\ ListedUnder(sent'[i].text, "codes in process:") = CodesOf(cid, Running)
                    /\ ListedUnder(sent'[i].text, "queued codes:") = CodesOf(cid, Queued)
              /\ UNCHANGED <<queuedJobs, failedJobs, runningJobs, finishedJobs>>
       ]_vars

(* ----------------------------- persistence ----------------------------- *)

\* the attribute each file is written from
Memory(filename) ==
    IF filename = _QUEUED_FILE THEN queuedJobs
    ELSE IF filename = _PROCESSING_FILE THEN runningJobs
    ELSE IF filename = _FINISHED_FILE THEN finishedJobs
    ELSE failedJobs

\* C19: after every handler each file that was written holds the value of
\* the set it mirrors, and a set whose file was never written is still empty.
C19_PersistenceMirrorsMemory ==
    \A f \in _FILE_CANDIDATES :
        IF files[f].written
        THEN files[f].data = Memory(f)
        ELSE Memory(f) = (IF f = _QUEUED_FILE THEN {} ELSE EmptyDict)

\* type(data) of the object pickled into each file: _queuedJobs is a set,
\* _failedJobs, _runningJobs and _finishedJobs are dicts
PickledType(filename) == IF filename = _QUEUED_FILE THEN "set" ELSE "dict"

\* _loadFile(filename) on the session files fs: set() when the file does not
\* exist, the unpickled object when it is a set, ServerError otherwise
_loadFile(fs, filename) ==
    IF ~fs[filename].written THEN [raised |-> "", data |-> {}]
    ELSE IF PickledType(filename) = "set" THEN [raised |-> "", data |-> fs[filename].data]
    ELSE [raised |-> "ServerError", data |-> {}]

\* C20: a file the last handler has dumped is read back by the load
\* operation without error, and the value read equals the set in memory.
C20_PersistenceRoundTrip ==
    \A f \in dumped :
        /\ _loadFile(files, f).raised = ""
        /\ _loadFile(files, f).data = Memory(f)

(* ------------------------------ framing -------------------------------- *)

\* the messages the server's mailbox got from sender c, in order
Delivered(c) ==
    SelectSeq(messages, LAMBDA m : m.type \in RequestTypes /\ m.sender = c)

\* the messages the frames of sender c encode, in order
Encoded(c) == [i \in 1 .. Len(Framed(c)) |-> Received(c, _unpickle(<<Framed(c)[i]>>).obj)]

\* every frame written so far has a body that unpickles
AllFramesValid ==
    \A c \in DOMAIN protocol.framed :
        \A i \in 1 .. Len(Framed(c)) : Framed(c)[i] \in DOMAIN Pickles

\* every byte written has been read and every packet has been processed
AllPacketsProcessed ==
    /\ protocol.received = <<>>
    /\ \A c \in DOMAIN protocol.stream : protocol.stream[c] = <<>>

\* C21: when the last packet has been processed, the subscriber has got
\* exactly the messages of the frames each sender wrote, in order, however
\* the bytes were cut into packets.
C21_FrameBoundaryRobustness ==
    (AllFramesValid /\ AllPacketsProcessed) =>
        \A c \in DOMAIN protocol.framed : Delivered(c) = Encoded(c)

\* C22: a frame whose body cannot be unpickled does not end the protocol
\* thread: Protocol.threadCode keeps running.
C22_DecodeErrorsContained == protocol.raised = ""

(* ------------------------- connections and ids -------------------------- *)

\* C23: the table of connections never shrinks, a slot changes only by being
\* closed and nulled, the connection a slot was given to stays the same, and
\* the ids follow the order in which the connections were accepted.
C23_ClientIdAssignment ==
    [][/\ Len(connections') >= Len(connections)
       /\ \A i \in 1 .. Len(connections) :
             /\ communicator'.acceptNo[i] = communicator.acceptNo[i]
             /\ connections'[i] # connections[i] => connections'[i] \in {"shut", None}
       /\ \A i, j \in 1 .. Len(communicator'.acceptNo) :
             i < j => communicator'.acceptNo[i] < communicator'.acceptNo[j]
      ]_vars

\* C25: a handler that sends to the id of a connection that has been closed
\* (its socket closed, its slot nulled or not yet) raises nothing and writes
\* to no connection.
C25_SendToClosedPeer ==
    [][(ProcessMsgList /\ CommSend(Head(messages).clientID) \notin {"ValueError", "sent"}) =>
          /\ raised' = ""
          /\ \A i \in 1 .. Len(sent') : sent'[i].result # "sent"
      ]_vars

\* C26: when recv on a connection has failed with an OSError that is not the
\* poll timeout, the connection is torn down: its socket is closed, its slot
\* is nulled and MsgDisconnected(c) is delivered.
C26_TransportErrorTearsDown ==
    \A c \in 0 .. MaxConnections - 1 :
        (c \in DOMAIN communicator.recv /\ communicator.recv[c] = "OSError")
            ~> (c < Len(connections) /\ connections[c + 1] = None)

(* --------------------------- handler errors ---------------------------- *)

\* C27: no handler of the server (Connected, Disconnected, AddCode, AddList,
\* Retry, Discard, List, Allocate, Ack) ends with an exception.
C27_HandlersDoNotFail == raised = ""

(* ------------------------------ the session ---------------------------- *)

\* C28: a Response the message loop takes from the mailbox is handed to the
\* caller when its queryId belongs to a request the client sent, is dropped
\* when it does not, and in both cases the message loop keeps running.
C28_ClientCorrelation ==
    [][(MessageLoop /\ msgType(Head(client.messages)) = "MsgResponse") =>
          /\ client'.msgLoop = "running"
          /\ client'.stdout =
                IF Head(client.messages).queryID \in RequestedIDs
                THEN Append(client.stdout, Head(client.messages).text)
                ELSE client.stdout
      ]_vars

\* C29: once MsgDisconnected has reached the session while the prompt loop
\* was running, and the message loop has had the time to take everything it
\* can from the mailbox, the next add, file, list, retry, discard or help
\* ends the prompt loop and sends nothing.
C29_ReactionToConnectionLoss ==
    [][(CheckedCommand /\ client.notified /\ ~ENABLED MessageLoop) =>
          /\ client'.cmdLoop = "ended"
          /\ client'.requests = client.requests
      ]_vars

(* ------------------------------- stopping ------------------------------ *)

\* C30: the workers are told to stop only after the protocol layer has been
\* stopped, and the cookie files are merged and deleted only when every
\* worker has exited, so never while a worker is inside a download.
C30_StopOrdering ==
    [][/\ StopWorker => shutdown.pc # "running"
       /\ (MergeCookieFiles \/ RemoveCookieFiles) =>
             \A w \in Workers : workers[w].pc = "exited"
      ]_vars

(* --------------------------- internal messages ------------------------- *)

\* C31: the handlers of Ack, Allocate, Connected and Disconnected never run
\* for a message that was decoded from the bytes of a client connection.
C31_InternalVariantsStayInternal ==
    [][(ProcessMsgAck \/ ProcessMsgAllocate \/ ProcessMsgConnected \/ ProcessMsgDisconnected)
          => "sender" \notin DOMAIN Head(messages)]_vars

(* ------------------------------ completion ----------------------------- *)

\* C32: every job that is in Queued is eventually in Finished or in Failed.
C32_EventualCompletion ==
    \A clientID \in ClientIDs, ytCode \in Items :
        (Job(clientID, ytCode) \in Queued)
            ~> (Job(clientID, ytCode) \in Finished \cup Failed)

(* ----------------------------- allocation ------------------------------ *)

\* the Tasks a step has put into the mailbox of worker w
Dispatched(w) ==
    SubSeq(workers'[w].messages, Len(workers[w].messages) + 1, Len(workers'[w].messages))

C34_EveryAckFindsItsJob ==
    [][(ProcessMsgAck /\ "sender" \notin DOMAIN Head(messages)) =>
          /\ Head(messages).job[1] \in DOMAIN runningJobs
          /\ Head(messages).job[2] \in runningJobs[Head(messages).job[1]]
          /\ raised' = ""
      ]_vars

\* C34 witness: the Ack of a job that had failed, was added again and was
\* dispatched a second time has just been processed without an exception.
C34_Witness ==
    /\ handled.type = "MsgAck"
    /\ handled.success
    /\ raised = ""
    /\ handled.job \in Failed
    /\ handled.job \in Finished

(* --------------------------- order of events --------------------------- *)

\* C35: in the subscriber's mailbox every message decoded from the bytes of
\* connection c comes after MsgConnected(c) and not after MsgDisconnected(c).
C35_EventOrderingPerConnection ==
    \A i \in 1 .. Len(messages) :
        "sender" \in DOMAIN messages[i] =>
            /\ \E j \in 1 .. i - 1 : messages[j] = MsgConnected(messages[i].sender)
            /\ \A j \in 1 .. i - 1 : messages[j] # MsgDisconnected(messages[i].sender)

(* --------------------------- per-sender buffers ------------------------ *)

\* the bytes of the frames with the given bodies, one after the other
RECURSIVE Written(_)
Written(bodies) ==
    IF bodies = <<>> THEN <<>> ELSE encode(Head(bodies)) \o Written(Tail(bodies))

\* bytes occurs in whole as one piece
IsPieceOf(piece, whole) ==
    \E i \in 1 .. Len(whole) + 1, j \in 0 .. Len(whole) : SubSeq(whole, i, j) = piece

\* the messages in the mailbox that were decoded from packets of sender c
DecodedFrom(c) ==
    LET OfSender(m) == "sender" \in DOMAIN m /\ m.sender = c
    IN  SelectSeq(messages, OfSender)

\* C37: the messages decoded from the packets of a sender are the objects of
\* the first frames that sender wrote, in order, and the bytes buffered for a
\* sender are one piece of the bytes that sender wrote, however the packets
\* of the two senders are interleaved.
C37_PerSenderBuffersIsolated ==
    \A c \in DOMAIN protocol.framed :
        /\ Len(DecodedFrom(c)) <= Len(Framed(c))
        /\ \A i \in 1 .. Len(DecodedFrom(c)) :
              /\ Framed(c)[i] \in DOMAIN Pickles
              /\ DecodedFrom(c)[i] = Received(c, Pickles[Framed(c)[i]])
        /\ c \in DOMAIN protocol.buffers =>
              IsPieceOf(protocol.buffers[c], Written(Framed(c)))

\* part of the frame of sender 0 is buffered, the frame of sender 1 has
\* arrived after it and has been decoded, and the next packet is of sender 0
C37_Witness ==
    /\ 0 \in DOMAIN protocol.buffers
    /\ protocol.buffers[0] # <<>>
    /\ find(protocol.buffers[0], _END) = -1
    /\ Len(DecodedFrom(1)) = 1
    /\ DecodedFrom(0) = <<>>
    /\ Framed(0) = <<"a">>
    /\ Framed(1) = <<"l">>
    /\ protocol.received # <<>>
    /\ Head(protocol.received).sender = 0

(* ------------------------ the transport's notices ---------------------- *)

\* the positions of message in the mailbox
Positions(message) == {i \in 1 .. Len(messages) : messages[i] = message}

\* C36: for every registered connection c exactly one MsgConnected(c) has
\* been posted; MsgDisconnected(c) has been posted at most once, after
\* MsgConnected(c), and exactly once when the slot of c has been nulled; and
\* no MsgDisconnected names an id without a connection.
C36_ConnectDisconnectPairing ==
    /\ \A c \in 0 .. Len(connections) - 1 :
          /\ Cardinality(Positions(MsgConnected(c))) = 1
          /\ Cardinality(Positions(MsgDisconnected(c))) <= 1
          /\ \A i \in Positions(MsgDisconnected(c)) :
                \E j \in Positions(MsgConnected(c)) : j < i
          /\ connections[c + 1] = None => Positions(MsgDisconnected(c)) # {}
    /\ \A c \in Len(connections) .. MaxConnections :
          Positions(MsgDisconnected(c)) = {}

\* the transport thread has ended and every socket is closed
Terminated ==
    /\ communicator.thread = "ended"
    /\ communicator.acceptLoop = "ended"
    /\ communicator.dispatcher = "ended"
    /\ communicator.listener = "closed"
    /\ \A i \in 1 .. Len(connections) : connections[i] = None

\* C38: after stop() the accept loop, the dispatcher and every read loop end,
\* every socket is closed and the transport thread ends.
C38_TransportShutdownTerminates == (~communicator.running) ~> Terminated

(* ---------------------------- client records --------------------------- *)

\* C24: the first Connected(cid) creates the record with connected = true, a
\* further Connected(cid) changes nothing, Disconnected(cid) sets connected
\* to false, a Disconnected for an unknown or disconnected cid changes
\* nothing, and no step removes a record or sets connected back to true.
C24_ClientRecordLifecycle ==
    [][/\ \A cid \in DOMAIN clients :
             cid \in DOMAIN clients' /\ (clients'[cid] => clients[cid])
       /\ ProcessMsgConnected =>
             LET cid == Head(messages).clientID
             IN  clients' = IF cid \in DOMAIN clients THEN clients
                            ELSE DictPut(clients, cid, TRUE)
       /\ ProcessMsgDisconnected =>
             LET cid == Head(messages).clientID
             IN  clients' = IF cid \in DOMAIN clients /\ clients[cid]
                            THEN DictPut(clients, cid, FALSE)
                            ELSE clients
      ]_vars

\* C24 witness: a Connected(cid) has just been processed for a client whose
\* record says disconnected, and the record still says so.
C24_Witness ==
    /\ handled.type = "MsgConnected"
    /\ handled.clientID \in DOMAIN clients
    /\ ~clients[handled.clientID]

====
